---- MODULE Spec2Model ----
(***************************************************************************)
(* gcache: an in-process key/value cache with per-entry expiry, a          *)
(* background watcher (cleanup sweep, periodic persist) and a file         *)
(* persister.  The store is two maps guarded by one RWMutex.  A mutating   *)
(* accessor of generic.go runs its whole body between Lock and Unlock, so  *)
(* it is one atomic step; a reading accessor changes nothing and is an     *)
(* operator over the maps and the clock.  persist() copies the entries     *)
(* under the read lock and calls Save after releasing it: two steps.       *)
(* SpecLock drops that atomicity: each Lock, RLock, Unlock and RUnlock of  *)
(* an accessor, of cleanup() and of persist() is a step of its own, with   *)
(* the reader count and writer flag of the RWMutex as state.               *)
(* Time is the millisecond clock read by time.Now().                       *)
(***************************************************************************)
EXTENDS Integers, Sequences, FiniteSets, TLC

\* ---------------------------------------------------------------- bounds
MaxTime == 2        \* the clock runs 0..MaxTime
MaxTTL == 1         \* finite TTLs handed to Set are 1..MaxTTL
MaxVal == 1         \* Increase is called while the result stays <= MaxVal
MaxLen == 1         \* AppendToSlice is called while the slice stays <= MaxLen
NumCallers == 3     \* concurrent Increase callers of SpecInc

\* ------------------------------------------------------------- constants
\* math.MaxInt64 in the source; any value above every clock value of the
\* model plays the same role (it is only compared, never added to).
kNeverExpireMs == 2147483647
\* the never-expire TTL sentinel (cache.go declares it as NO_EXPIRATION)
NEVER_EXPIRE == -1

Keys == {"a"}
MapNames == {"f"}
Types == {"int", "string", "[]int", "map[string]int"}

ErrNil == "nil"
ErrNotExists == "key not exists"
ErrInvalidType == "invalid type"

\* ---------------------------------------------------------------- values
\* An interface{} value: its dynamic type and its payload.  A map payload is
\* a set of [name, val] pairs with distinct names.
IntV(n) == [typ |-> "int", num |-> n, str |-> "", seq |-> <<>>, map |-> {}]
StrV(s) == [typ |-> "string", num |-> 0, str |-> s, seq |-> <<>>, map |-> {}]
SliceV(q) == [typ |-> "[]int", num |-> 0, str |-> "", seq |-> q, map |-> {}]
MapV(m) == [typ |-> "map[string]int", num |-> 0, str |-> "", seq |-> <<>>, map |-> m]
\* the zero value of T returned beside an error
Nil == [typ |-> "nil", num |-> 0, str |-> "", seq |-> <<>>, map |-> {}]

SetVals == {IntV(0), StrV("x"), SliceV(<<>>), MapV({})}
TTLs == {NEVER_EXPIRE} \cup (1..MaxTTL)

Item(obj, exp) == [Object |-> obj, ExpireMs |-> exp]
NoItem == Item(Nil, 0)
EmptyItems == [k \in {} |-> NoItem]

Put(m, k, it) == [x \in (DOMAIN m) \cup {k} |-> IF x = k THEN it ELSE m[x]]
Remove(m, k) == [x \in (DOMAIN m) \ {k} |-> m[x]]

\* mutant of expired: the entry outlives its expiry by one millisecond
expiredLate(it, t) == t > it.ExpireMs + 1

\* Item.expired / Item.neverExpire at clock t
expired(it, t) == t > it.ExpireMs
neverExpire(it) == it.ExpireMs = kNeverExpireMs

VARIABLES
    now,            \* time.Now().UnixMilli()
    persistItems,   \* Cache.persistItems
    volatileItems,  \* Cache.volatileItems
    changed,        \* Cache.changed
    hasPersister,   \* Cache.persister != nil
    disk,           \* the persister's file: the gob blob last written
    cancelled,      \* ctx.Done() is closed
    wpc,            \* the watcher goroutine: "select", "save", "final_save", "exited"
    items,          \* persist()'s local snapshot, alive while wpc is a save step
    aliased,        \* keys whose snapshot entry shares its Go map with the store's entry
    callers,        \* SpecInc: what each concurrent Increase caller got back
    lastSet,        \* history: key -> the Set still standing on it (no write to the key since)
    setNever,       \* history: keys Set with NEVER_EXPIRE and not re-Set finite or deleted since
    pend,           \* history: keys not written since persist() took its current snapshot
    durable,        \* history: keys not written since a snapshot that Save has written out
    tickDirty,      \* history: value of changed when the current persist tick began
    dropped,        \* history: keys Load dropped as expired, not Set in this cache since
    saveFailed,     \* history: a Save failed and the store was not written since its snapshot
    mtx,            \* Cache.mtx: the RWMutex's reader count and writer flag
    procs,          \* SpecLock: where each accessor goroutine is in its call
    held,           \* history: per goroutine, its lock acquisitions minus its releases
    fatal,          \* the runtime has thrown "sync: unlock of unlocked RWMutex"
    dirtySince      \* history: c.changed = true was executed since persist() last tested it

vars == <<now, persistItems, volatileItems, changed, hasPersister, disk, cancelled,
          wpc, items, aliased, callers, lastSet, setNever, pend, durable, tickDirty,
          dropped, saveFailed, mtx, procs, held, fatal, dirtySince>>

\* the state the lock-level specification adds
lockVars == <<mtx, procs, held, fatal, dirtySince>>

\* ------------------------------------------------------------ read paths
\* The lookup shared by Get, GetSliceCopy, GetMapCopy and the mutators:
\* the permanent map first, then the timed map with the expiry test.
LookupExpiryFirst(p, v, t, key) ==
    IF key \in DOMAIN p THEN [found |-> TRUE, item |-> p[key]]
    ELSE IF key \notin DOMAIN v \/ expired(v[key], t) THEN [found |-> FALSE, item |-> NoItem]
    ELSE [found |-> TRUE, item |-> v[key]]

Result(err, obj, ttl) == [err |-> err, obj |-> obj, ttl |-> ttl]

ExistsOf(p, v, t, key) ==
    \/ key \in DOMAIN p
    \/ key \in DOMAIN v /\ ~expired(v[key], t)

\* mutant of GetOf: a value of another type is reported as a missing key
GetOfMismatchNotFound(p, v, t, key, T) ==
    LET l == LookupExpiryFirst(p, v, t, key) IN
    IF ~l.found \/ l.item.Object.typ # T THEN Result(ErrNotExists, Nil, 0)
    ELSE Result(ErrNil, l.item.Object, 0)

GetOf(p, v, t, key, T) ==
    LET l == LookupExpiryFirst(p, v, t, key) IN
    IF ~l.found THEN Result(ErrNotExists, Nil, 0)
    ELSE IF l.item.Object.typ # T THEN Result(ErrInvalidType, Nil, 0)
    ELSE Result(ErrNil, l.item.Object, 0)

GetTTLOf(p, v, t, key) ==
    IF key \in DOMAIN p THEN Result(ErrNil, Nil, NEVER_EXPIRE)
    ELSE IF key \notin DOMAIN v THEN Result(ErrNotExists, Nil, 0)
    ELSE IF v[key].ExpireMs < t THEN Result(ErrNotExists, Nil, 0)
    ELSE Result(ErrNil, Nil, v[key].ExpireMs - t)

GetWithTTLOf(p, v, t, key, T) ==
    IF key \in DOMAIN p THEN
        IF p[key].Object.typ # T THEN Result(ErrInvalidType, Nil, 0)
        ELSE Result(ErrNil, p[key].Object, NEVER_EXPIRE)
    ELSE IF key \notin DOMAIN v THEN Result(ErrNotExists, Nil, 0)
    ELSE IF v[key].Object.typ # T THEN Result(ErrInvalidType, Nil, 0)
    ELSE IF v[key].ExpireMs < t THEN Result(ErrNotExists, Nil, 0)
    ELSE Result(ErrNil, v[key].Object, v[key].ExpireMs - t)

\* GetSliceCopy[T] with []T = want; the copy has the slice's elements.
GetSliceCopyOf(p, v, t, key, want) ==
    LET l == LookupExpiryFirst(p, v, t, key) IN
    IF ~l.found THEN Result(ErrNotExists, Nil, 0)
    ELSE IF l.item.Object.typ # want THEN Result(ErrInvalidType, Nil, 0)
    ELSE Result(ErrNil, SliceV(l.item.Object.seq), 0)

\* GetMapCopy[T] with map[string]T = want.
GetMapCopyOf(p, v, t, key, want) ==
    LET l == LookupExpiryFirst(p, v, t, key) IN
    IF ~l.found THEN Result(ErrNotExists, Nil, 0)
    ELSE IF l.item.Object.typ # want THEN Result(ErrInvalidType, Nil, 0)
    ELSE Result(ErrNil, MapV(l.item.Object.map), 0)

\* Len: len(c.persistItems) + len(c.volatileItems)
LenOf(p, v) == Cardinality(DOMAIN p) + Cardinality(DOMAIN v)

\* LenValid: the permanent entries and the timed entries with !item.expired()
LenValidOf(p, v, t) ==
    Cardinality(DOMAIN p) + Cardinality({k \in DOMAIN v : ~expired(v[k], t)})

\* Cache.TotalValidItems: the timed entries are counted with now.Before(expiry)
TotalValidItemsOf(p, v, t) ==
    Cardinality(DOMAIN p) + Cardinality({k \in DOMAIN v : t < v[k].ExpireMs})

Exists(key) == ExistsOf(persistItems, volatileItems, now, key)
Get(key, T) == GetOf(persistItems, volatileItems, now, key, T)
GetTTL(key) == GetTTLOf(persistItems, volatileItems, now, key)
GetWithTTL(key, T) == GetWithTTLOf(persistItems, volatileItems, now, key, T)
GetSliceCopy(key, want) == GetSliceCopyOf(persistItems, volatileItems, now, key, want)
GetMapCopy(key, want) == GetMapCopyOf(persistItems, volatileItems, now, key, want)

\* ----------------------------------------------------------- write paths
\* What a mutating accessor leaves behind: the error and value it returns,
\* the two maps, and whether it executed `c.changed = true`.
Outcome(err, obj, p, v, wrote) ==
    [err |-> err, obj |-> obj, p |-> p, v |-> v, wrote |-> wrote]

\* mutant of SetOf: the expiry is the TTL itself, not now + TTL
SetOfRelativeExpiry(p, v, t, key, obj, ttl) ==
    IF ttl = NEVER_EXPIRE
    THEN Outcome(ErrNil, Nil, Put(p, key, Item(obj, kNeverExpireMs)), Remove(v, key), TRUE)
    ELSE Outcome(ErrNil, Nil, Remove(p, key), Put(v, key, Item(obj, ttl)), TRUE)

\* mutant of SetOf: the key is not deleted from the other map
SetOfKeepOther(p, v, t, key, obj, ttl) ==
    IF ttl = NEVER_EXPIRE
    THEN Outcome(ErrNil, Nil, Put(p, key, Item(obj, kNeverExpireMs)), v, TRUE)
    ELSE Outcome(ErrNil, Nil, p, Put(v, key, Item(obj, t + ttl)), TRUE)

\* mutant of SetOf: the sentinel is treated as an ordinary TTL
SetOfNoSentinel(p, v, t, key, obj, ttl) ==
    Outcome(ErrNil, Nil, Remove(p, key), Put(v, key, Item(obj, t + ttl)), TRUE)

\* Set: the branch on ttl, the delete from the other map, the upsert.
SetOf(p, v, t, key, obj, ttl) ==
    IF ttl = NEVER_EXPIRE
    THEN Outcome(ErrNil, Nil, Put(p, key, Item(obj, kNeverExpireMs)), Remove(v, key), TRUE)
    ELSE Outcome(ErrNil, Nil, Remove(p, key), Put(v, key, Item(obj, t + ttl)), TRUE)

DeleteOf(p, v, key) ==
    IF key \in DOMAIN p THEN Outcome(ErrNil, Nil, Remove(p, key), v, TRUE)
    ELSE IF key \in DOMAIN v THEN Outcome(ErrNil, Nil, p, Remove(v, key), TRUE)
    ELSE Outcome(ErrNil, Nil, p, v, FALSE)

\* DeleteKeys: both deletes for every key of the list; changed is not touched.
DeleteKeysOf(p, v, keys) ==
    Outcome(ErrNil, Nil,
            [x \in (DOMAIN p) \ keys |-> p[x]],
            [x \in (DOMAIN v) \ keys |-> v[x]], FALSE)

\* mutant of WriteBack: the entry always goes back into the timed map
WriteBackTimed(p, v, key, item) == [p |-> p, v |-> Put(v, key, item)]

\* The write-back shared by Increase, Decrease, AppendToSlice, InsertToMap:
\* the partition is chosen by item.neverExpire().
WriteBack(p, v, key, item) ==
    IF neverExpire(item) THEN [p |-> Put(p, key, item), v |-> v]
    ELSE [p |-> p, v |-> Put(v, key, item)]

\* mutant of AddOf: the write-back gives a timed entry a fresh lifetime
AddOfRenew(p, v, t, key, T, delta) ==
    LET l == LookupExpiryFirst(p, v, t, key) IN
    IF ~l.found THEN Outcome(ErrNotExists, Nil, p, v, FALSE)
    ELSE IF l.item.Object.typ # T THEN Outcome(ErrInvalidType, Nil, p, v, FALSE)
    ELSE LET newV == IntV(l.item.Object.num + delta)
             exp == IF neverExpire(l.item) THEN kNeverExpireMs ELSE t + MaxTTL
             w == WriteBack(p, v, key, Item(newV, exp))
         IN Outcome(ErrNil, newV, w.p, w.v, TRUE)

\* Increase / Decrease share this body: delta is +val or -val.
AddOf(p, v, t, key, T, delta) ==
    LET l == LookupExpiryFirst(p, v, t, key) IN
    IF ~l.found THEN Outcome(ErrNotExists, Nil, p, v, FALSE)
    ELSE IF l.item.Object.typ # T THEN Outcome(ErrInvalidType, Nil, p, v, FALSE)
    ELSE LET newV == IntV(l.item.Object.num + delta)
             w == WriteBack(p, v, key, Item(newV, l.item.ExpireMs))
         IN Outcome(ErrNil, newV, w.p, w.v, TRUE)

\* mutant of IncreaseOf: the sum is returned but the entry is not rewritten
IncreaseOfStale(p, v, t, key, T, val) ==
    LET o == AddOf(p, v, t, key, T, val) IN Outcome(o.err, o.obj, p, v, o.wrote)

IncreaseOf(p, v, t, key, T, val) == AddOf(p, v, t, key, T, val)
DecreaseOf(p, v, t, key, T, val) == AddOf(p, v, t, key, T, 0 - val)

\* AppendToSlice[T] with []T = want.
AppendToSliceOf(p, v, t, key, want, val) ==
    LET l == LookupExpiryFirst(p, v, t, key) IN
    IF ~l.found THEN Outcome(ErrNotExists, Nil, p, v, FALSE)
    ELSE IF l.item.Object.typ # want THEN Outcome(ErrInvalidType, Nil, p, v, FALSE)
    ELSE LET newV == SliceV(Append(l.item.Object.seq, val))
             w == WriteBack(p, v, key, Item(newV, l.item.ExpireMs))
         IN Outcome(ErrNil, Nil, w.p, w.v, TRUE)

MapPut(m, name, val) == {e \in m : e.name # name} \cup {[name |-> name, val |-> val]}
MapDel(m, name) == {e \in m : e.name # name}

\* mutant of InsertToMapOf: a missing key is created instead of reported
InsertToMapOfCreates(p, v, t, key, want, name, val) ==
    LET l == LookupExpiryFirst(p, v, t, key) IN
    IF ~l.found
    THEN Outcome(ErrNotExists, Nil,
                 Put(p, key, Item(MapV(MapPut({}, name, val)), kNeverExpireMs)),
                 Remove(v, key), TRUE)
    ELSE IF l.item.Object.typ # want THEN Outcome(ErrInvalidType, Nil, p, v, FALSE)
    ELSE LET newV == MapV(MapPut(l.item.Object.map, name, val))
             w == WriteBack(p, v, key, Item(newV, l.item.ExpireMs))
         IN Outcome(ErrNil, newV, w.p, w.v, TRUE)

\* InsertToMap[T] with map[string]T = want: valMap[name] = val on the map
\* the entry refers to, then the write-back.
InsertToMapOf(p, v, t, key, want, name, val) ==
    LET l == LookupExpiryFirst(p, v, t, key) IN
    IF ~l.found THEN Outcome(ErrNotExists, Nil, p, v, FALSE)
    ELSE IF l.item.Object.typ # want THEN Outcome(ErrInvalidType, Nil, p, v, FALSE)
    ELSE LET newV == MapV(MapPut(l.item.Object.map, name, val))
             w == WriteBack(p, v, key, Item(newV, l.item.ExpireMs))
         IN Outcome(ErrNil, newV, w.p, w.v, TRUE)

\* DeleteFromMap: delete(valMap, name) on the map the entry refers to; there
\* is no write-back and changed is not touched.  The entry sees the deletion
\* because it holds the same Go map.
DeleteFromMapOf(p, v, t, key, want, name) ==
    LET l == LookupExpiryFirst(p, v, t, key) IN
    IF ~l.found THEN Outcome(ErrNotExists, Nil, p, v, FALSE)
    ELSE IF l.item.Object.typ # want THEN Outcome(ErrInvalidType, Nil, p, v, FALSE)
    ELSE LET newV == MapV(MapDel(l.item.Object.map, name))
             it == Item(newV, l.item.ExpireMs)
         IN Outcome(ErrNil, newV,
                    IF key \in DOMAIN p THEN Put(p, key, it) ELSE p,
                    IF key \in DOMAIN p THEN v ELSE Put(v, key, it), FALSE)

\* mutant of cleanupOf: an entry is swept at its expiry instant already
cleanupOfEager(v, t) == [x \in {k \in DOMAIN v : t < v[k].ExpireMs} |-> v[x]]

\* cleanup(): the timed entries left by the sweep at clock t.
cleanupOf(v, t) == [x \in {k \in DOMAIN v : ~(t > v[k].ExpireMs)} |-> v[x]]

\* persist(): the map copied under the read lock.
snapshotOf(p, v, t, dirty) ==
    IF dirty
    THEN [x \in (DOMAIN p) \cup {k \in DOMAIN v : ~expired(v[k], t)} |->
             IF x \in DOMAIN p THEN p[x] ELSE v[x]]
    ELSE EmptyItems

\* ------------------------------------------------------------- persister
\* gob.NewEncoder(w).Encode(&items): one record per map entry, the key, the
\* registered concrete type with its value, and ExpireMs.
GobEncode(m) ==
    {[key |-> k, typ |-> m[k].Object.typ, num |-> m[k].Object.num, str |-> m[k].Object.str,
      seq |-> m[k].Object.seq, map |-> m[k].Object.map, ExpireMs |-> m[k].ExpireMs] :
        k \in DOMAIN m}

GobDecode(blob) ==
    [k \in {e.key : e \in blob} |->
        LET e == CHOOSE e \in blob : e.key = k IN
        Item([typ |-> e.typ, num |-> e.num, str |-> e.str, seq |-> e.seq, map |-> e.map],
             e.ExpireMs)]

\* FilePersister.Save: os.Create truncates the file, Encode writes the map.
SaveOf(m) == GobEncode(m)

\* mutant of LoadOf: the expired entries are not dropped
LoadOfKeepExpired(blob, t) == GobDecode(blob)

\* FilePersister.Load at clock t: decode, then drop the expired entries.
LoadOf(blob, t) ==
    LET m == GobDecode(blob) IN
    [k \in {x \in DOMAIN m : ~expired(m[x], t)} |-> m[k]]

\* mutant of NewVolatileItems: every loaded item is also put in the timed map
NewVolatileItemsAll(loaded) == loaded

\* New: the loaded items are split by their expiry marker.
NewPersistItems(loaded) == [k \in {x \in DOMAIN loaded : neverExpire(loaded[x])} |-> loaded[k]]
NewVolatileItems(loaded) == [k \in {x \in DOMAIN loaded : ~neverExpire(loaded[x])} |-> loaded[k]]

\* ---------------------------------------------------------------- history
NoSet == [valid |-> FALSE, obj |-> Nil, exp |-> 0, from |-> "absent"]
\* where a key is before a Set: "permanent", "timed" or "absent"
Partition(p, v, key) ==
    IF key \in DOMAIN p THEN "permanent" ELSE IF key \in DOMAIN v THEN "timed" ELSE "absent"
Ready == [pc |-> "ready", err |-> ErrNil, val |-> 0]

\* the keys in K were written: what was recorded about them no longer stands
Forget(K) ==
    /\ lastSet' = [k \in Keys |-> IF k \in K THEN NoSet ELSE lastSet[k]]
    /\ pend' = pend \ K
    /\ durable' = durable \ K
    /\ saveFailed' = (saveFailed /\ K = {})

\* sync.RWMutex: zero value, no reader and no writer
FreeMtx == [readerCount |-> 0, writer |-> FALSE]
\* the goroutines that call accessors in SpecLock: one calls the reading
\* accessors, the other the writing ones
Goroutines == {"reader", "writer"}
Idle == [pc |-> "idle", op |-> "", todo |-> 0]

\* the mutex of a new Cache is free and no accessor call is under way
LockInit ==
    /\ mtx = FreeMtx
    /\ procs = [g \in Goroutines |-> Idle]
    /\ held = [g \in Goroutines \cup {"watcher"} |-> 0]
    /\ fatal = FALSE
    /\ dirtySince = FALSE

WatcherIdle == UNCHANGED <<hasPersister, disk, cancelled, wpc, tickDirty, lockVars>>

\* ------------------------------------------------------------------- init
\* New(ctx, cleanupInterval, persistInterval, persister) on a fresh file:
\* Load finds no snapshot and returns an empty map; the watcher is started.
Init ==
    /\ now = 0
    /\ persistItems = EmptyItems
    /\ volatileItems = EmptyItems
    /\ changed = FALSE
    /\ hasPersister \in BOOLEAN
    /\ disk = {}
    /\ cancelled = FALSE
    /\ wpc = "select"
    /\ items = EmptyItems
    /\ aliased = {}
    /\ callers = [i \in 1..NumCallers |-> Ready]
    /\ lastSet = [k \in Keys |-> NoSet]
    /\ setNever = {}
    /\ pend = {}
    /\ durable = {}
    /\ tickDirty = FALSE
    /\ dropped = {}
    /\ saveFailed = FALSE
    /\ LockInit

\* -------------------------------------------------------------- accessors
SetCall(key, obj, ttl) ==
    LET o == SetOf(persistItems, volatileItems, now, key, obj, ttl) IN
    /\ persistItems' = o.p
    /\ volatileItems' = o.v
    /\ changed' = TRUE
    /\ lastSet' = [lastSet EXCEPT ![key] =
                     [valid |-> TRUE, obj |-> obj,
                      exp |-> IF ttl = NEVER_EXPIRE THEN kNeverExpireMs ELSE now + ttl,
                      from |-> Partition(persistItems, volatileItems, key)]]
    /\ setNever' = IF ttl = NEVER_EXPIRE THEN setNever \cup {key} ELSE setNever \ {key}
    /\ pend' = pend \ {key}
    /\ durable' = durable \ {key}
    /\ aliased' = aliased \ {key}
    /\ dropped' = dropped \ {key}
    /\ saveFailed' = FALSE
    /\ UNCHANGED <<now, items, callers>>
    /\ WatcherIdle

DeleteCall(key) ==
    LET o == DeleteOf(persistItems, volatileItems, key) IN
    /\ persistItems' = o.p
    /\ volatileItems' = o.v
    /\ changed' = (changed \/ o.wrote)
    /\ Forget(IF o.wrote THEN {key} ELSE {})
    /\ setNever' = setNever \ {key}
    /\ aliased' = aliased \ {key}
    /\ UNCHANGED <<now, items, callers, dropped>>
    /\ WatcherIdle

DeleteKeysCall(keys) ==
    LET o == DeleteKeysOf(persistItems, volatileItems, keys) IN
    /\ persistItems' = o.p
    /\ volatileItems' = o.v
    /\ changed' = (changed \/ o.wrote)
    /\ Forget(keys)
    /\ setNever' = setNever \ keys
    /\ aliased' = aliased \ keys
    /\ UNCHANGED <<now, items, callers, dropped>>
    /\ WatcherIdle

\* the part common to the four mutators that rewrite one entry
Mutated(key, o) ==
    /\ persistItems' = o.p
    /\ volatileItems' = o.v
    /\ changed' = (changed \/ o.wrote)
    /\ Forget(IF o.err = ErrNil THEN {key} ELSE {})
    /\ UNCHANGED <<now, setNever, dropped>>
    /\ WatcherIdle

IncreaseCall(key, T, val) ==
    LET o == IncreaseOf(persistItems, volatileItems, now, key, T, val) IN
    /\ o.obj.num <= MaxVal
    /\ Mutated(key, o)
    /\ UNCHANGED <<items, aliased, callers>>

DecreaseCall(key, T, val) ==
    LET o == DecreaseOf(persistItems, volatileItems, now, key, T, val) IN
    /\ o.obj.num >= 0
    /\ Mutated(key, o)
    /\ UNCHANGED <<items, aliased, callers>>

AppendToSliceCall(key, want, val) ==
    LET o == AppendToSliceOf(persistItems, volatileItems, now, key, want, val) IN
    /\ \A k \in DOMAIN o.p : Len(o.p[k].Object.seq) <= MaxLen
    /\ \A k \in DOMAIN o.v : Len(o.v[k].Object.seq) <= MaxLen
    /\ Mutated(key, o)
    /\ UNCHANGED <<items, aliased, callers>>

\* A map held by the snapshot of a running persist() is the very map the
\* store's entry holds, so an in-place insert or delete shows in both.
InPlace(key, o) ==
    /\ items' = IF o.err = ErrNil /\ key \in aliased
                THEN Put(items, key, Item(o.obj, items[key].ExpireMs))
                ELSE items
    /\ UNCHANGED <<aliased, callers>>

InsertToMapCall(key, want, name, val) ==
    LET o == InsertToMapOf(persistItems, volatileItems, now, key, want, name, val) IN
    /\ Mutated(key, o)
    /\ InPlace(key, o)

DeleteFromMapCall(key, want, name) ==
    LET o == DeleteFromMapOf(persistItems, volatileItems, now, key, want, name) IN
    /\ Mutated(key, o)
    /\ InPlace(key, o)

\* ------------------------------------------------------------------ clock
Tick ==
    /\ now < MaxTime
    /\ now' = now + 1
    /\ UNCHANGED <<persistItems, volatileItems, changed, hasPersister, disk, cancelled,
                   wpc, items, aliased, callers, lastSet, setNever, pend, durable,
                   tickDirty, dropped, saveFailed, lockVars>>

\* ---------------------------------------------------------------- watcher
\* case <-cleanupTicker.C: c.cleanup()
CleanupTick ==
    /\ wpc = "select"
    /\ volatileItems' = cleanupOf(volatileItems, now)
    /\ changed' = (changed \/ (DOMAIN volatileItems' # DOMAIN volatileItems))
    /\ Forget((DOMAIN volatileItems) \ (DOMAIN volatileItems'))
    /\ UNCHANGED <<now, persistItems, hasPersister, disk, cancelled, wpc, items, aliased,
                   callers, setNever, tickDirty, dropped, lockVars>>

\* persist() up to RUnlock: the copy and the clearing of changed
TakeSnapshot(next) ==
    /\ items' = snapshotOf(persistItems, volatileItems, now, changed)
    /\ aliased' = {k \in DOMAIN items' : items'[k].Object.typ = "map[string]int"}
    /\ changed' = FALSE
    /\ tickDirty' = changed
    /\ pend' = Keys
    /\ wpc' = next
    /\ UNCHANGED <<now, persistItems, volatileItems, hasPersister, disk, cancelled,
                   callers, lastSet, setNever, durable, dropped, saveFailed, lockVars>>

\* case <-persistTicker.C: c.persist()
PersistTick ==
    /\ wpc = "select"
    /\ hasPersister
    /\ TakeSnapshot("save")

\* mutant of WatcherDone: the ctx.Done() case lacks its return, the loop goes on
WatcherDoneNoReturn ==
    /\ wpc = "select"
    /\ cancelled
    /\ IF hasPersister
       THEN TakeSnapshot("save")
       ELSE UNCHANGED vars

\* case <-ctx.Done(): c.persist(); return
WatcherDone ==
    /\ wpc = "select"
    /\ cancelled
    /\ IF hasPersister
       THEN TakeSnapshot("final_save")
       ELSE /\ wpc' = "exited"
            /\ UNCHANGED <<now, persistItems, volatileItems, changed, hasPersister, disk,
                           cancelled, items, aliased, callers, lastSet, setNever,
                           pend, durable, tickDirty, dropped, saveFailed, lockVars>>

\* c.persister.Save(items), after the read lock was released
SaveStep ==
    /\ wpc \in {"save", "final_save"}
    /\ disk' = SaveOf(items)
    /\ wpc' = IF wpc = "save" THEN "select" ELSE "exited"
    /\ items' = EmptyItems
    /\ aliased' = {}
    /\ durable' = durable \cup pend
    /\ pend' = {}
    /\ tickDirty' = FALSE
    /\ UNCHANGED <<now, persistItems, volatileItems, changed, hasPersister, cancelled,
                   callers, lastSet, setNever, dropped, saveFailed, lockVars>>

\* mutant of SaveFail: a failed Save marks the store dirty again
SaveFailRestoresDirty ==
    /\ wpc \in {"save", "final_save"}
    /\ \E left \in {disk, {}} :
        /\ disk' = left
        /\ durable' = IF left = disk THEN durable ELSE {}
    /\ wpc' = IF wpc = "save" THEN "select" ELSE "exited"
    /\ items' = EmptyItems
    /\ aliased' = {}
    /\ pend' = {}
    /\ tickDirty' = FALSE
    /\ saveFailed' = (pend = Keys)
    /\ changed' = TRUE
    /\ UNCHANGED <<now, persistItems, volatileItems, hasPersister, cancelled,
                   callers, lastSet, setNever, dropped, lockVars>>

\* c.persister.Save(items) returns an error, which persist() drops: os.Create
\* failed and the file is as it was, or Encode failed on the truncated file.
SaveFail ==
    /\ wpc \in {"save", "final_save"}
    /\ \E left \in {disk, {}} :
        /\ disk' = left
        /\ durable' = IF left = disk THEN durable ELSE {}
    /\ wpc' = IF wpc = "save" THEN "select" ELSE "exited"
    /\ items' = EmptyItems
    /\ aliased' = {}
    /\ pend' = {}
    /\ tickDirty' = FALSE
    /\ saveFailed' = (pend = Keys)
    /\ UNCHANGED <<now, persistItems, volatileItems, changed, hasPersister, cancelled,
                   callers, lastSet, setNever, dropped, lockVars>>

\* Cache.Close: c.cancel()
Close ==
    /\ ~cancelled
    /\ cancelled' = TRUE
    /\ UNCHANGED <<now, persistItems, volatileItems, changed, hasPersister, disk, wpc,
                   items, aliased, callers, lastSet, setNever, pend, durable,
                   tickDirty, dropped, saveFailed, lockVars>>

\* New(...) again on the same file: a second cache, which the model follows
\* from here on (the first one is not used any more).
Reopen ==
    /\ hasPersister
    /\ wpc \in {"select", "exited"}
    /\ LET loaded == LoadOf(disk, now) IN
        /\ persistItems' = NewPersistItems(loaded)
        /\ volatileItems' = NewVolatileItems(loaded)
    /\ changed' = FALSE
    /\ cancelled' = FALSE
    /\ wpc' = "select"
    /\ lastSet' = [k \in Keys |-> NoSet]
    /\ setNever' = {}
    /\ pend' = {}
    /\ durable' = {}
    /\ tickDirty' = FALSE
    /\ dropped' = {e.key : e \in {x \in disk : x.ExpireMs < now}}
    /\ saveFailed' = FALSE
    /\ UNCHANGED <<now, hasPersister, disk, items, aliased, callers, lockVars>>

NumTypes == {"int"}
SliceTypes == {"[]int"}
MapTypes == {"map[string]int"}

\* the accessors, the clock and the watcher's two tickers
Running ==
    \/ \E k \in Keys, obj \in SetVals, ttl \in TTLs : SetCall(k, obj, ttl)
    \/ \E k \in Keys : DeleteCall(k)
    \/ \E ks \in SUBSET Keys : DeleteKeysCall(ks)
    \/ \E k \in Keys, T \in NumTypes : IncreaseCall(k, T, 1)
    \/ \E k \in Keys, T \in NumTypes : DecreaseCall(k, T, 1)
    \/ \E k \in Keys, T \in SliceTypes : AppendToSliceCall(k, T, 1)
    \/ \E k \in Keys, T \in MapTypes, n \in MapNames : InsertToMapCall(k, T, n, 1)
    \/ \E k \in Keys, T \in MapTypes, n \in MapNames : DeleteFromMapCall(k, T, n)
    \/ Tick
    \/ CleanupTick
    \/ PersistTick
    \/ SaveStep
    \/ Reopen

Next ==
    \/ Running
    \/ Close
    \/ WatcherDone
    \/ SaveFail

\* the whole life of a cache, shutdown included
Spec == Init /\ [][Next]_vars

\* a cache that is not shut down: the watcher keeps serving its tickers
SpecRun == Init /\ [][Running]_vars

\* a cache that is not shut down and whose Save may fail
NextFail ==
    \/ Running
    \/ SaveFail

SpecFail == Init /\ [][NextFail]_vars

\* ------------------------------------------------------------- shutdown
\* Set and Delete callers, the clock, the watcher and Close.  A select with
\* several ready cases picks one at random, so the ctx.Done() case is taken
\* once it has been ready often enough; a Save that was called returns.
NextLive ==
    \/ \E k \in Keys, obj \in SetVals, ttl \in TTLs : SetCall(k, obj, ttl)
    \/ \E k \in Keys : DeleteCall(k)
    \/ Tick
    \/ CleanupTick
    \/ PersistTick
    \/ SaveStep
    \/ SaveFail
    \/ Close
    \/ WatcherDone

SpecLive ==
    /\ Init
    /\ [][NextLive]_vars
    /\ SF_vars(WatcherDone)
    /\ WF_vars(SaveStep \/ SaveFail)

\* ------------------------------------------------- a store with two keys
\* A store that holds OtherKey from the start: either New(ctx, ..., nil)
\* followed by Set(c, OtherKey, obj, ttl), which leaves changed true, or New
\* on a file that holds the entry, which leaves changed false.  The
\* accessors then work on the keys of Keys and on OtherKey while the clock
\* runs and the watcher sweeps; no persist tick falls in this window.
OtherKey == "b"
AllKeys == Keys \cup {OtherKey}

InitFrame ==
    /\ now = 0
    /\ \E obj \in SetVals, ttl \in TTLs, fromFile \in BOOLEAN :
        LET o == SetOf(EmptyItems, EmptyItems, 0, OtherKey, obj, ttl)
            blob == SaveOf(snapshotOf(o.p, o.v, 0, TRUE))
            loaded == LoadOf(blob, 0)
        IN
        /\ hasPersister = fromFile
        /\ disk = IF fromFile THEN blob ELSE {}
        /\ persistItems = IF fromFile THEN NewPersistItems(loaded) ELSE o.p
        /\ volatileItems = IF fromFile THEN NewVolatileItems(loaded) ELSE o.v
        /\ changed = ~fromFile
    /\ cancelled = FALSE
    /\ wpc = "select"
    /\ items = EmptyItems
    /\ aliased = {}
    /\ callers = [i \in 1..NumCallers |-> Ready]
    /\ lastSet = [k \in Keys |-> NoSet]
    /\ setNever = {}
    /\ pend = {}
    /\ durable = {}
    /\ tickDirty = FALSE
    /\ dropped = {}
    /\ saveFailed = FALSE
    /\ LockInit

NextFrame ==
    \/ \E k \in Keys, obj \in SetVals, ttl \in TTLs : SetCall(k, obj, ttl)
    \/ \E k \in AllKeys, T \in NumTypes : IncreaseCall(k, T, 1)
    \/ \E k \in AllKeys, T \in NumTypes : DecreaseCall(k, T, 1)
    \/ \E k \in AllKeys, T \in SliceTypes : AppendToSliceCall(k, T, 1)
    \/ \E k \in AllKeys, T \in MapTypes, n \in MapNames : InsertToMapCall(k, T, n, 1)
    \/ \E k \in AllKeys, T \in MapTypes, n \in MapNames : DeleteFromMapCall(k, T, n)
    \/ Tick
    \/ CleanupTick

SpecFrame == InitFrame /\ [][NextFrame]_vars

\* ------------------------------------------- concurrent Increase callers
\* NumCallers goroutines each call Increase(c, CounterKey, 1) once, on a key
\* that Set(c, CounterKey, 0, ttl) initialised, while the watcher runs.
CounterKey == "a"

InitInc ==
    /\ now = 0
    /\ hasPersister \in BOOLEAN
    /\ \E ttl \in TTLs :
        LET o == SetOf(EmptyItems, EmptyItems, 0, CounterKey, IntV(0), ttl) IN
        /\ persistItems = o.p
        /\ volatileItems = o.v
        /\ setNever = IF ttl = NEVER_EXPIRE THEN {CounterKey} ELSE {}
        /\ lastSet = [k \in Keys |->
                        IF k = CounterKey
                        THEN [valid |-> TRUE, obj |-> IntV(0),
                              exp |-> IF ttl = NEVER_EXPIRE THEN kNeverExpireMs ELSE ttl,
                              from |-> "absent"]
                        ELSE NoSet]
    /\ changed = TRUE
    /\ disk = {}
    /\ cancelled = FALSE
    /\ wpc = "select"
    /\ items = EmptyItems
    /\ aliased = {}
    /\ callers = [i \in 1..NumCallers |-> Ready]
    /\ pend = {}
    /\ durable = {}
    /\ tickDirty = FALSE
    /\ dropped = {}
    /\ saveFailed = FALSE
    /\ LockInit

IncCaller(i) ==
    LET o == IncreaseOf(persistItems, volatileItems, now, CounterKey, "int", 1) IN
    /\ callers[i].pc = "ready"
    /\ Mutated(CounterKey, o)
    /\ callers' = [callers EXCEPT ![i] = [pc |-> "done", err |-> o.err, val |-> o.obj.num]]
    /\ UNCHANGED <<items, aliased>>

NextInc ==
    \/ \E i \in 1..NumCallers : IncCaller(i)
    \/ Tick
    \/ CleanupTick
    \/ PersistTick
    \/ SaveStep

SpecInc == InitInc /\ [][NextInc]_vars

\* ------------------------------------------------------ the lock, step by step
\* The same cache with every c.mtx call as a step of its own: an accessor
\* call is its RLock or Lock, its body, and the RUnlock or Unlock calls its
\* return path makes; persist() is RLock, the test of changed with the copy,
\* the clearing of changed, RUnlock, and Save; cleanup() is Lock, the sweep,
\* Unlock.  An RUnlock or Unlock of a mutex that is not locked that way is a
\* fatal error of the runtime, which ends the process.
ReadOps == {"Get", "GetWithTTL", "GetSliceCopy", "GetMapCopy"}
WriteOps == {"Set", "Delete", "Increase", "Decrease", "AppendToSlice", "InsertToMap",
             "DeleteFromMap"}
OpsOf(g) == IF g = "reader" THEN ReadOps ELSE WriteOps
\* the TTLs Set is called with in SpecLock
LockTTLs == {NEVER_EXPIRE}

\* RLock proceeds when no writer holds the mutex, Lock when nobody does
CanRLock(m) == ~m.writer
CanLock(m) == ~m.writer /\ m.readerCount = 0
RLockOf(m) == [m EXCEPT !.readerCount = @ + 1]
LockOf(m) == [m EXCEPT !.writer = TRUE]
\* RUnlock with no reader left and Unlock with no writer are fatal
RUnlockFatal(m) == m.readerCount = 0
UnlockFatal(m) == ~m.writer
RUnlockOf(m) == [m EXCEPT !.readerCount = @ - 1]
UnlockOf(m) == [m EXCEPT !.writer = FALSE]

\* the body of accessor op between its lock and its unlock calls
OpOutcome(op, key, obj, ttl) ==
    LET p == persistItems
        v == volatileItems
        read(r) == Outcome(r.err, r.obj, p, v, FALSE)
    IN
    CASE op = "Get" -> read(GetOf(p, v, now, key, obj.typ))
      [] op = "GetWithTTL" -> read(GetWithTTLOf(p, v, now, key, obj.typ))
      [] op = "GetSliceCopy" -> read(GetSliceCopyOf(p, v, now, key, "[]int"))
      [] op = "GetMapCopy" -> read(GetMapCopyOf(p, v, now, key, "map[string]int"))
      [] op = "Set" -> SetOf(p, v, now, key, obj, ttl)
      [] op = "Delete" -> DeleteOf(p, v, key)
      [] op = "Increase" -> IncreaseOf(p, v, now, key, "int", 1)
      [] op = "Decrease" -> DecreaseOf(p, v, now, key, "int", 1)
      [] op = "AppendToSlice" -> AppendToSliceOf(p, v, now, key, "[]int", 1)
      [] op = "InsertToMap" -> InsertToMapOf(p, v, now, key, "map[string]int", "f", 1)
      [] op = "DeleteFromMap" -> DeleteFromMapOf(p, v, now, key, "map[string]int", "f")

\* the stored values stay within the bounds of the model
InBounds(o) ==
    /\ o.obj.num >= 0 /\ o.obj.num <= MaxVal
    /\ \A k \in DOMAIN o.p : Len(o.p[k].Object.seq) <= MaxLen
    /\ \A k \in DOMAIN o.v : Len(o.v[k].Object.seq) <= MaxLen

\* how many unlock calls the return path of op makes: GetSliceCopy and
\* GetMapCopy call RUnlock on their not-found path and have it deferred too
UnlockCount(op, err) ==
    IF op \in {"GetSliceCopy", "GetMapCopy"} /\ err = ErrNotExists THEN 2 ELSE 1

\* what SpecLock does not use
LockUnused ==
    UNCHANGED <<hasPersister, disk, cancelled, callers, lastSet, setNever, pend, durable,
                dropped, saveFailed>>

\* c.mtx.RLock() or c.mtx.Lock() at the head of an accessor
CallBegin(g, op, key) ==
    /\ ~fatal
    /\ procs[g].pc = "idle"
    /\ \E obj \in SetVals, ttl \in LockTTLs : InBounds(OpOutcome(op, key, obj, ttl))
    /\ IF op \in ReadOps
       THEN CanRLock(mtx) /\ mtx' = RLockOf(mtx)
       ELSE CanLock(mtx) /\ mtx' = LockOf(mtx)
    /\ procs' = [procs EXCEPT ![g] = [pc |-> "locked", op |-> op, todo |-> 0]]
    /\ held' = [held EXCEPT ![g] = @ + 1]
    /\ UNCHANGED <<now, persistItems, volatileItems, changed, wpc, items, aliased,
                   tickDirty, fatal, dirtySince>>
    /\ LockUnused

\* the accessor's work on the maps and on changed
CallBody(g, key, obj, ttl) ==
    LET op == procs[g].op
        o == OpOutcome(op, key, obj, ttl)
    IN
    /\ ~fatal
    /\ procs[g].pc = "locked"
    /\ InBounds(o)
    /\ persistItems' = o.p
    /\ volatileItems' = o.v
    /\ changed' = (changed \/ o.wrote)
    /\ dirtySince' = (dirtySince \/ o.wrote)
    /\ items' = IF op \in {"InsertToMap", "DeleteFromMap"} /\ o.err = ErrNil /\ key \in aliased
                THEN Put(items, key, Item(o.obj, items[key].ExpireMs))
                ELSE items
    /\ aliased' = IF op \in {"Set", "Delete"} THEN aliased \ {key} ELSE aliased
    /\ procs' = [procs EXCEPT ![g] =
                    [pc |-> "unlocking", op |-> op, todo |-> UnlockCount(op, o.err)]]
    /\ UNCHANGED <<now, wpc, tickDirty, mtx, held, fatal>>
    /\ LockUnused

\* one c.mtx.RUnlock() or c.mtx.Unlock() of the return path
CallRelease(g) ==
    LET rd == procs[g].op \in ReadOps
        left == procs[g].todo - 1
    IN
    /\ ~fatal
    /\ procs[g].pc = "unlocking"
    /\ IF (IF rd THEN RUnlockFatal(mtx) ELSE UnlockFatal(mtx))
       THEN /\ fatal' = TRUE
            /\ UNCHANGED <<mtx, procs, held>>
       ELSE /\ mtx' = IF rd THEN RUnlockOf(mtx) ELSE UnlockOf(mtx)
            /\ held' = [held EXCEPT ![g] = @ - 1]
            /\ procs' = [procs EXCEPT ![g] =
                            IF left = 0 THEN Idle ELSE [procs[g] EXCEPT !.todo = left]]
            /\ fatal' = fatal
    /\ UNCHANGED <<now, persistItems, volatileItems, changed, wpc, items, aliased,
                   tickDirty, dirtySince>>
    /\ LockUnused

\* persist(): c.mtx.RLock()
PersistRLock ==
    /\ ~fatal
    /\ wpc = "select"
    /\ hasPersister
    /\ CanRLock(mtx)
    /\ mtx' = RLockOf(mtx)
    /\ held' = [held EXCEPT !["watcher"] = @ + 1]
    /\ wpc' = "copy"
    /\ UNCHANGED <<now, persistItems, volatileItems, changed, items, aliased, tickDirty,
                   procs, fatal, dirtySince>>
    /\ LockUnused

\* persist(): if c.changed { copy the entries }
PersistCopy ==
    /\ ~fatal
    /\ wpc = "copy"
    /\ items' = snapshotOf(persistItems, volatileItems, now, changed)
    /\ aliased' = {k \in DOMAIN items' : items'[k].Object.typ = "map[string]int"}
    /\ tickDirty' = changed
    /\ dirtySince' = FALSE
    /\ wpc' = IF changed THEN "clear" ELSE "runlock"
    /\ UNCHANGED <<now, persistItems, volatileItems, changed, mtx, procs, held, fatal>>
    /\ LockUnused

\* persist(): c.changed = false
PersistClear ==
    /\ ~fatal
    /\ wpc = "clear"
    /\ changed' = FALSE
    /\ wpc' = "runlock"
    /\ UNCHANGED <<now, persistItems, volatileItems, items, aliased, tickDirty, mtx,
                   procs, held, fatal, dirtySince>>
    /\ LockUnused

\* mutant of PersistRUnlock: the read lock is kept while Save runs
PersistKeepsRLock ==
    /\ ~fatal
    /\ wpc = "runlock"
    /\ wpc' = "save"
    /\ UNCHANGED <<now, persistItems, volatileItems, changed, items, aliased, tickDirty,
                   mtx, procs, held, fatal, dirtySince>>
    /\ LockUnused

\* persist(): c.mtx.RUnlock(), after which Save is called
PersistRUnlock ==
    /\ ~fatal
    /\ wpc = "runlock"
    /\ IF RUnlockFatal(mtx)
       THEN /\ fatal' = TRUE
            /\ UNCHANGED <<mtx, held, wpc>>
       ELSE /\ mtx' = RUnlockOf(mtx)
            /\ held' = [held EXCEPT !["watcher"] = @ - 1]
            /\ wpc' = "save"
            /\ fatal' = fatal
    /\ UNCHANGED <<now, persistItems, volatileItems, changed, items, aliased, tickDirty,
                   procs, dirtySince>>
    /\ LockUnused

\* cleanup(): c.mtx.Lock()
CleanupLock ==
    /\ ~fatal
    /\ wpc = "select"
    /\ CanLock(mtx)
    /\ mtx' = LockOf(mtx)
    /\ held' = [held EXCEPT !["watcher"] = @ + 1]
    /\ wpc' = "sweep"
    /\ UNCHANGED <<now, persistItems, volatileItems, changed, items, aliased, tickDirty,
                   procs, fatal, dirtySince>>
    /\ LockUnused

\* cleanup(): the loop over c.volatileItems
CleanupBody ==
    /\ ~fatal
    /\ wpc = "sweep"
    /\ volatileItems' = cleanupOf(volatileItems, now)
    /\ changed' = (changed \/ (DOMAIN volatileItems' # DOMAIN volatileItems))
    /\ dirtySince' = (dirtySince \/ (DOMAIN volatileItems' # DOMAIN volatileItems))
    /\ wpc' = "unlock"
    /\ UNCHANGED <<now, persistItems, items, aliased, tickDirty, mtx, procs, held, fatal>>
    /\ LockUnused

\* cleanup(): c.mtx.Unlock()
CleanupUnlock ==
    /\ ~fatal
    /\ wpc = "unlock"
    /\ IF UnlockFatal(mtx)
       THEN /\ fatal' = TRUE
            /\ UNCHANGED <<mtx, held, wpc>>
       ELSE /\ mtx' = UnlockOf(mtx)
            /\ held' = [held EXCEPT !["watcher"] = @ - 1]
            /\ wpc' = "select"
            /\ fatal' = fatal
    /\ UNCHANGED <<now, persistItems, volatileItems, changed, items, aliased, tickDirty,
                   procs, dirtySince>>
    /\ LockUnused

NextLock ==
    \/ \E g \in Goroutines, k \in Keys : \E op \in OpsOf(g) : CallBegin(g, op, k)
    \/ \E g \in Goroutines, k \in Keys, obj \in SetVals, ttl \in LockTTLs :
          CallBody(g, k, obj, ttl)
    \/ \E g \in Goroutines : CallRelease(g)
    \/ PersistRLock
    \/ PersistCopy
    \/ PersistClear
    \/ PersistRUnlock
    \/ ~fatal /\ SaveStep
    \/ CleanupLock
    \/ CleanupBody
    \/ CleanupUnlock

SpecLock == Init /\ [][NextLock]_vars

\* ================================================================ claims
Ok(obj) == Result(ErrNil, obj, 0)
TimedOut(k) == k \in DOMAIN volatileItems /\ volatileItems[k].ExpireMs < now
\* the cache a second New(...) would build from the file at this instant
SecondGet(k, T) ==
    LET loaded == LoadOf(disk, now) IN
    GetOf(NewPersistItems(loaded), NewVolatileItems(loaded), now, k, T)

\* C1: after Set(k, v, d) with a finite d > 0, and while no other write to k
\* has happened and the clock has not passed the entry's expiry, Get(k)
\* returns v and Exists(k) is true, whatever k held before and whatever the
\* watcher did in between.
C1_SetThenGet ==
    \A k \in Keys :
        (lastSet[k].valid /\ lastSet[k].exp # kNeverExpireMs /\ now <= lastSet[k].exp)
            => /\ Get(k, lastSet[k].obj.typ) = Ok(lastSet[k].obj)
               /\ Exists(k)

C1_Witness ==
    \E k \in Keys :
        /\ lastSet[k].valid /\ lastSet[k].exp # kNeverExpireMs
        /\ lastSet[k].from = "permanent"
        /\ lastSet[k].exp = now /\ now > 0
        /\ Get(k, "string") = Ok(StrV("x"))

\* C2: a timed entry whose expiry the clock has passed is invisible, swept or
\* not: Get fails with ErrNotExists for every requested type and Exists is
\* false.
C2_ExpiredInvisible ==
    \A k \in Keys :
        TimedOut(k) => /\ \A T \in Types : Get(k, T) = Result(ErrNotExists, Nil, 0)
                       /\ ~Exists(k)

C2_Witness ==
    \E k \in Keys : TimedOut(k) /\ lastSet[k].valid /\ ~changed

\* C3: no key is in the permanent and in the timed partition at once.
C3_PartitionsDisjoint ==
    (DOMAIN persistItems) \cap (DOMAIN volatileItems) = {}

\* the key was persisted as a timed entry, Set permanent later and incremented
C3_Witness ==
    \E k \in DOMAIN persistItems :
        /\ \E e \in disk : e.key = k /\ e.ExpireMs # kNeverExpireMs
        /\ ~lastSet[k].valid
        /\ persistItems[k].Object = IntV(1)

C5_NeverExpires ==
    \A k \in setNever :
        /\ GetTTL(k) = Result(ErrNil, Nil, NEVER_EXPIRE)
        /\ k \in DOMAIN persistItems

C5_Witness ==
    \E k \in setNever : now = MaxTime /\ k \in durable /\ ~lastSet[k].valid

\* C6: Get[T] of a present, unexpired key holding another type fails with
\* ErrInvalidType (not ErrNotExists), and Set overwrites a value of any type:
\* while the Set stands and the entry is live, Get returns the Set value for
\* its type and ErrInvalidType for every other type.
C6_InvalidType ==
    \A k \in Keys, T \in Types :
        Exists(k) =>
            /\ Get(k, T).err =
                IF LookupExpiryFirst(persistItems, volatileItems, now, k).item.Object.typ = T
                THEN ErrNil ELSE ErrInvalidType
            /\ lastSet[k].valid =>
                Get(k, T) = IF T = lastSet[k].obj.typ THEN Ok(lastSet[k].obj)
                            ELSE Result(ErrInvalidType, Nil, 0)

C6_Witness ==
    \E k \in setNever :
        /\ persistItems[k].Object.typ = "int"
        /\ Get(k, "string").err = ErrInvalidType
        /\ lastSet[k].valid /\ lastSet[k].from = "timed"
        /\ \E e \in disk : e.key = k /\ e.typ = "string"

\* C7: every typed read or mutate of a timed key whose expiry has passed and
\* that the sweep has not removed yet answers ErrNotExists, whatever type is
\* requested and whatever type is stored.
C7_ExpiredIsNotFound ==
    \A k \in Keys :
        (TimedOut(k) /\ k \notin DOMAIN persistItems) =>
            /\ \A T \in Types :
                /\ Get(k, T).err = ErrNotExists
                /\ GetWithTTL(k, T).err = ErrNotExists
                /\ GetSliceCopy(k, T).err = ErrNotExists
                /\ GetMapCopy(k, T).err = ErrNotExists
                /\ IncreaseOf(persistItems, volatileItems, now, k, T, 1).err = ErrNotExists
                /\ DecreaseOf(persistItems, volatileItems, now, k, T, 1).err = ErrNotExists
                /\ AppendToSliceOf(persistItems, volatileItems, now, k, T, 1).err = ErrNotExists
                /\ \A n \in MapNames :
                    /\ InsertToMapOf(persistItems, volatileItems, now, k, T, n, 1).err
                          = ErrNotExists
                    /\ DeleteFromMapOf(persistItems, volatileItems, now, k, T, n).err
                          = ErrNotExists

DoneCallers == {i \in DOMAIN callers : callers[i].pc = "done"}

\* C8: when every Increase(CounterKey, 1) issued so far found the key live,
\* the calls returned 1..n for the n calls made, each value once, and the
\* stored value is n for as long as the entry is held (a timed entry may be
\* swept after its expiry); on a permanent key no call fails and the entry
\* stays.
C8_NoLostUpdate ==
    LET p == Partition(persistItems, volatileItems, CounterKey)
        n == Cardinality(DoneCallers)
    IN
    /\ CounterKey \in setNever =>
          /\ p = "permanent"
          /\ \A i \in DoneCallers : callers[i].err = ErrNil
    /\ (\A i \in DoneCallers : callers[i].err = ErrNil) =>
          /\ {callers[i].val : i \in DoneCallers} = 1..n
          /\ p = "permanent" => persistItems[CounterKey].Object = IntV(n)
          /\ p = "timed" => volatileItems[CounterKey].Object = IntV(n)

C8_Witness ==
    /\ DoneCallers = DOMAIN callers
    /\ \A i \in DoneCallers : callers[i].err = ErrNil
    /\ disk # {}
    /\ now > 0

\* C9: a key whose last write was followed by a complete persist (snapshot
\* and Save), and that is still live, is returned with the same value by a
\* second cache built from the file.
C9_RoundTrip ==
    \A k \in durable, T \in Types :
        Get(k, T).err = ErrNil => SecondGet(k, T) = Get(k, T)

\* C10: a persist tick that finds changed false does not call Save and leaves
\* the file as it is; one that finds changed true copies the live entries,
\* clears changed and goes on to call Save.
C10_CleanTickNoSave ==
    [][/\ (wpc = "save" /\ ~tickDirty) => (~SaveStep /\ disk' = disk)
       /\ (PersistTick /\ changed) =>
            /\ items' = snapshotOf(persistItems, volatileItems, now, TRUE)
            /\ ~changed'
            /\ wpc' = "save"]_vars

\* the store's live contents: the permanent entries and the unexpired timed ones
Live == snapshotOf(persistItems, volatileItems, now, TRUE)

\* C11: on cancellation with a persister, the watcher's last persist() copies
\* the store's live contents whatever changed is, and the Save that follows
\* writes that copy to the file.
C11_FinalSnapshot ==
    [][/\ (WatcherDone /\ hasPersister) => items' = Live
       /\ (SaveStep /\ wpc = "final_save") => disk' = SaveOf(items)]_vars

\* C12: a key the file held with a finite expiry that had passed when New
\* loaded it is in neither partition and Exists is false for it, in the new
\* cache from construction on and in every snapshot persist() takes, until a
\* Set stores the key anew.
C12_ExpiredOnLoad ==
    \A k \in dropped :
        /\ ~Exists(k)
        /\ k \notin DOMAIN persistItems
        /\ k \notin DOMAIN volatileItems
        /\ k \notin DOMAIN items

\* the new cache has run a persist tick and the file still holds the entry
C12_Witness ==
    \E k \in dropped :
        /\ wpc = "save"
        /\ \E e \in disk : e.key = k /\ e.ExpireMs < now

\* C13: Len is the number of permanent entries plus the number of timed
\* entries, expired or not; LenValid and TotalValidItems are the number of
\* keys for which Exists is true.
C13_Counts ==
    LET valid == Cardinality({k \in (DOMAIN persistItems) \cup (DOMAIN volatileItems) :
                                Exists(k)})
    IN
    /\ LenOf(persistItems, volatileItems)
          = Cardinality(DOMAIN persistItems) + Cardinality(DOMAIN volatileItems)
    /\ LenValidOf(persistItems, volatileItems, now) = valid
    /\ TotalValidItemsOf(persistItems, volatileItems, now) = valid

\* C14: changed is true after every step that changes a partition or a stored
\* value (the construction of a new cache aside), and a Delete of an absent
\* key or a sweep that removes nothing leaves changed as it was.
C14_DirtyTracksChanges ==
    [][/\ ((persistItems' # persistItems \/ volatileItems' # volatileItems) /\ ~Reopen)
            => changed'
       /\ (\E k \in Keys :
              /\ DeleteCall(k)
              /\ k \notin (DOMAIN persistItems) \cup (DOMAIN volatileItems))
            => changed' = changed
       /\ (CleanupTick /\ volatileItems' = volatileItems) => changed' = changed]_vars

\* the entry a key has in the store, whichever map holds it
EntryOf(p, v, k) ==
    IF k \in DOMAIN p THEN p[k] ELSE IF k \in DOMAIN v THEN v[k] ELSE NoItem

\* a step that is a successful Increase, Decrease, AppendToSlice or InsertToMap on k
Mutates(k) ==
    \/ \E T \in NumTypes : IncreaseCall(k, T, 1) \/ DecreaseCall(k, T, 1)
    \/ \E T \in SliceTypes : AppendToSliceCall(k, T, 1)
    \/ \E T \in MapTypes, n \in MapNames : InsertToMapCall(k, T, n, 1)

\* C15: a successful Increase, Decrease, AppendToSlice or InsertToMap on k
\* leaves k in the partition it was in with the expiry it had, and leaves
\* every other key where it was with the entry it had.
C15_MutateFrame ==
    [][\A k \in AllKeys :
          Mutates(k) =>
            /\ Partition(persistItems', volatileItems', k)
                  = Partition(persistItems, volatileItems, k)
            /\ Partition(persistItems, volatileItems, k) # "absent"
            /\ EntryOf(persistItems', volatileItems', k).ExpireMs
                  = EntryOf(persistItems, volatileItems, k).ExpireMs
            /\ \A j \in AllKeys \ {k} :
                  /\ Partition(persistItems', volatileItems', j)
                        = Partition(persistItems, volatileItems, j)
                  /\ EntryOf(persistItems', volatileItems', j)
                        = EntryOf(persistItems, volatileItems, j)]_vars

\* a timed key was incremented and is at its expiry instant, beside a
\* permanent slice that was appended to
C15_Witness ==
    \E k \in Keys :
        /\ k \in DOMAIN volatileItems
        /\ volatileItems[k] = Item(IntV(1), now)
        /\ OtherKey \in DOMAIN persistItems
        /\ persistItems[OtherKey] = Item(SliceV(<<1>>), kNeverExpireMs)

\* C16: every permanent entry carries kNeverExpireMs and every timed entry
\* an expiry other than kNeverExpireMs, after Set, after a mutator's
\* write-back and after New has split a loaded snapshot.
C16_ExpiryMatchesPartition ==
    /\ \A k \in DOMAIN persistItems : neverExpire(persistItems[k])
    /\ \A k \in DOMAIN volatileItems : ~neverExpire(volatileItems[k])

\* a permanent string entry that no Set of this cache stored: New loaded it
C16_Witness ==
    \E k \in DOMAIN persistItems :
        /\ persistItems[k] = Item(StrV("x"), kNeverExpireMs)
        /\ ~lastSet[k].valid
        /\ k \notin setNever

\* C17: the map persist() hands to Save is the store's live contents at the
\* instant of the copy (the permanent entries and the unexpired timed ones),
\* and it is still that map when Save is called.
C17_SnapshotConsistent ==
    [][/\ (wpc = "select" /\ wpc' \in {"save", "final_save"}) => items' = Live
       /\ (wpc \in {"save", "final_save"} /\ wpc' = wpc) => items' = items]_vars

\* C18: a sweep removes the timed entries whose expiry the clock has passed
\* and nothing else: no such entry is left, every unexpired timed entry and
\* every permanent entry is as it was, and changed is set if an entry was
\* removed and left alone otherwise.
C18_SweepExact ==
    [][CleanupTick =>
        /\ \A k \in DOMAIN volatileItems' : now <= volatileItems'[k].ExpireMs
        /\ \A k \in DOMAIN volatileItems :
              now <= volatileItems[k].ExpireMs =>
                /\ k \in DOMAIN volatileItems'
                /\ volatileItems'[k] = volatileItems[k]
        /\ DOMAIN volatileItems' \subseteq DOMAIN volatileItems
        /\ persistItems' = persistItems
        /\ changed' = (changed \/ DOMAIN volatileItems' # DOMAIN volatileItems)]_vars

\* OtherKey, which only a sweep removes here, is gone, and a timed key that
\* was in the store during that sweep is still held at its expiry instant
C18_Witness ==
    /\ OtherKey \notin (DOMAIN persistItems) \cup (DOMAIN volatileItems)
    /\ \E k \in Keys :
        /\ k \in DOMAIN volatileItems
        /\ volatileItems[k].ExpireMs = now
        /\ lastSet[k].valid

\* what each of the five mutators, called with a type it accepts, would do
\* to the store in this state
MutateOutcomes(k, n) ==
    {IncreaseOf(persistItems, volatileItems, now, k, T, 1) : T \in NumTypes}
    \cup {DecreaseOf(persistItems, volatileItems, now, k, T, 1) : T \in NumTypes}
    \cup {AppendToSliceOf(persistItems, volatileItems, now, k, T, 1) : T \in SliceTypes}
    \cup {InsertToMapOf(persistItems, volatileItems, now, k, T, n, 1) : T \in MapTypes}
    \cup {DeleteFromMapOf(persistItems, volatileItems, now, k, T, n) : T \in MapTypes}

\* C19: a mutator call that fails returns ErrNotExists or ErrInvalidType and
\* leaves both maps, every stored value and changed as they were.
C19_FailedMutateNoEffect ==
    \A k \in Keys, n \in MapNames :
        \A o \in MutateOutcomes(k, n) :
            o.err # ErrNil =>
                /\ o.err = IF Exists(k) THEN ErrInvalidType ELSE ErrNotExists
                /\ o.p = persistItems
                /\ o.v = volatileItems
                /\ ~o.wrote

\* a live string entry in a clean store: every mutator fails with ErrInvalidType
C19_Witness ==
    \E k \in DOMAIN persistItems :
        /\ persistItems[k].Object.typ = "string"
        /\ ~changed
        /\ \A n \in MapNames :
              \A o \in MutateOutcomes(k, n) : o.err = ErrInvalidType

\* C20: after a Save that failed, and until the next write to the store,
\* changed stays false, the watcher is still in its loop, and a later persist
\* tick does not copy the store again (the failed snapshot is not retried).
C20_FailedSaveSwallowed ==
    saveFailed =>
        /\ ~changed
        /\ wpc \in {"select", "save"}
        /\ wpc = "save" => (items = EmptyItems /\ ~tickDirty)

\* a Save of a live entry failed, and the next persist tick is under way
C20_Witness ==
    /\ saveFailed
    /\ wpc = "save"
    /\ persistItems # EmptyItems
    /\ disk = {}

\* C21: once ctx is cancelled the watcher goroutine eventually returns,
\* whatever tickers are ready, and from then on it runs no sweep and no Save:
\* it stays returned and the file stays as it is.
C21_Terminates ==
    /\ cancelled ~> (wpc = "exited")
    /\ [][wpc = "exited" =>
            /\ wpc' = "exited"
            /\ disk' = disk
            /\ ~CleanupTick /\ ~SaveStep /\ ~SaveFail]_vars

\* the watcher has returned after its last Save, and a Set came after that
C21_Witness ==
    /\ wpc = "exited"
    /\ cancelled
    /\ disk # {}
    /\ changed
    /\ \E k \in Keys : lastSet[k].valid /\ k \notin durable

\* a goroutine is between its lock call and its last unlock call
InCall(g) == procs[g].pc \in {"locked", "unlocking"}
\* the watcher is between persist()'s RLock and RUnlock
InPersist == wpc \in {"copy", "clear", "runlock"}

\* C22: persist() calls Save after it has released the read lock: while Save
\* runs the watcher holds no lock, and with no accessor call under way the
\* mutex is free, so that Set, Delete, the mutators and the readers proceed.
C22_SaveOutsideLock ==
    wpc = "save" =>
        /\ held["watcher"] = 0
        /\ (~fatal /\ \A g \in Goroutines : ~InCall(g)) => mtx = FreeMtx

\* Save is running on a snapshot while Set holds the write lock
C22_Witness ==
    /\ wpc = "save"
    /\ items # EmptyItems
    /\ ~fatal
    /\ procs["writer"] = [pc |-> "locked", op |-> "Set", todo |-> 0]
    /\ mtx.writer

\* C23: changed is accessed under the lock only and never by two goroutines
\* at once: while persist() is between RLock and RUnlock no writing accessor
\* is inside its Lock section, and a write of changed = true that came after
\* persist() tested changed is not undone by persist()'s clearing of it.
C23_DirtyUnderLock ==
    /\ InPersist => (held["watcher"] = 1 /\ ~mtx.writer /\ ~InCall("writer"))
    /\ InCall("writer") => (mtx.writer /\ mtx.readerCount = 0)
    /\ dirtySince => changed

\* C24: every accessor call releases the lock once: the runtime never sees an
\* unlock of a mutex that is not locked, no goroutine has released more often
\* than it has acquired, a goroutine that has returned holds nothing, and
\* the mutex is free when no call and no watcher step is under way.
C24_UnlockOnce ==
    /\ ~fatal
    /\ \A g \in Goroutines :
        /\ held[g] >= 0
        /\ ~InCall(g) => held[g] = 0
    /\ ((\A g \in Goroutines : ~InCall(g)) /\ wpc \in {"select", "save"}) => mtx = FreeMtx


\* C25: once persist() has released the read lock, the mapping it hands to
\* Save is isolated from the store: a call that changes the store while Save
\* is reading (Set, Delete, Increase, AppendToSlice, InsertToMap,
\* DeleteFromMap) changes no key of the snapshot and no value reachable from
\* it, maps and slices included.
C25_SnapshotIsolated ==
    [][(/\ wpc \in {"save", "final_save"}
        /\ <<persistItems, volatileItems>>' # <<persistItems, volatileItems>>)
          => /\ DOMAIN items' = DOMAIN items
             /\ \A k \in DOMAIN items : items'[k].Object = items[k].Object]_vars

====
